---- MODULE Spec2Model ----
(***************************************************************************)
(* A model of the tus resumable-upload controller of go-http-upload        *)
(* (api/v3/api.go): the metadata store, the blob files, and the handlers   *)
(* CreateUpload (POST), GetOffset (HEAD) and ResumeUpload (PATCH).         *)
(* ResumeUpload runs on concurrent workers; its steps are the places where *)
(* it touches shared state: Store.Find, the file open and seek, every      *)
(* write of io.Copy, the truncate, and Store.Save.                         *)
(***************************************************************************)
EXTENDS Integers, Sequences, FiniteSets, TLC

\* ---------------------------------------------------------------- bounds
MaxFiles == 1      \* upload ids the store may hold
MaxTotal == 2      \* largest Upload-Length a POST carries
MaxBody  == 2      \* largest PATCH body, in bytes
MaxBlob  == 2      \* largest blob file, in bytes
MaxNow   == 3      \* last instant of the clock
MaxByte  == 1      \* largest byte value a body holds
MaxPatches == 2    \* PATCH requests that get past the checks, in one run
MaxSizeCfg == 1    \* the non-zero MaxSize a controller may be constructed with

\* -------------------------------------------------------- program constants
\* UploadMaxDuration (10 minutes), counted in ticks of the clock
UploadMaxDuration == 1
\* the digest space of the hash standing for md5/sha1
HashMod == 2

\* the goroutines that serve PATCH requests, in the order they are taken
WorkerOrder == <<"w1", "w2">>
Workers == {WorkerOrder[i] : i \in DOMAIN WorkerOrder}
Ids     == 1..MaxFiles
\* the ids a request may name: those the server issues, and one it never does
RequestIds == Ids \cup {MaxFiles + 1}
Bytes   == 1..MaxByte

\* ------------------------------------------------------------- extensions
CreationExtension   == "creation"
ExpirationExtension == "expiration"
ChecksumExtension   == "checksum"

defaultSupportedExtensions ==
  <<CreationExtension, ExpirationExtension, ChecksumExtension>>

defaultMaxSize == 0

\* NewController: with the defaults, as the server constructs it, and with
\* no extension and a size limit
Controllers ==
  { [extensions |-> defaultSupportedExtensions, maxSize |-> defaultMaxSize],
    [extensions |-> <<>>, maxSize |-> MaxSizeCfg] }

Enabled(e, ext) == \E i \in DOMAIN e : e[i] = ext

\* ------------------------------------------------------------ tus versions
\* a list of versions none of which is supported
SupportedTusVersionNone == <<>>

SupportedTusVersion == <<"0.2.0", "1.0.0">>

TusVersion == "1.0.0"

SupportedChecksumAlgorithms == <<"sha1", "md5">>

\* the elements one after the other, without the separator
JoinPlain(elems, sep) == elems

RECURSIVE Join(_, _)
\* strings.Join: the elements with the separator between them
Join(elems, sep) ==
  IF Len(elems) = 0 THEN <<>>
  ELSE IF Len(elems) = 1 THEN <<elems[1]>>
  ELSE <<elems[1], sep>> \o Join(Tail(elems), sep)

\* ------------------------------------------------------------ conversions
\* A header value is the sequence of its characters.
DigitChars == <<"0", "1", "2", "3", "4", "5", "6", "7", "8", "9">>

IsDigit(c) == \E d \in DOMAIN DigitChars : DigitChars[d] = c

DigitOf(c) == (CHOOSE d \in DOMAIN DigitChars : DigitChars[d] = c) - 1

\* every number printed as 0
FormatUintZero(v) == <<"0">>

RECURSIVE FormatUint(_)
\* fmt.Sprint of an unsigned integer
FormatUint(v) ==
  IF v < 10 THEN <<DigitChars[v + 1]>>
  ELSE Append(FormatUint(v \div 10), DigitChars[(v % 10) + 1])

RECURSIVE DigitsValue(_)
DigitsValue(s) ==
  IF s = <<>> THEN 0
  ELSE 10 * DigitsValue(SubSeq(s, 1, Len(s) - 1)) + DigitOf(s[Len(s)])

\* a parse that takes zero for an error
ParseUintPositive(s) ==
  IF s # <<>> /\ (\A i \in DOMAIN s : IsDigit(s[i])) /\ DigitsValue(s) > 0
  THEN [ok |-> TRUE, v |-> DigitsValue(s)]
  ELSE [ok |-> FALSE, v |-> 0]

\* strconv.ParseUint(s, 10, 64): the empty string, a sign or any other
\* character is an error
ParseUint(s) ==
  IF s # <<>> /\ \A i \in DOMAIN s : IsDigit(s[i])
  THEN [ok |-> TRUE, v |-> DigitsValue(s)]
  ELSE [ok |-> FALSE, v |-> 0]

RECURSIVE HashSum(_)
HashSum(s) == IF s = <<>> THEN 0 ELSE s[1] * Len(s) + HashSum(Tail(s))

\* hex.EncodeToString(hash.Sum(nil)) of the bytes the TeeReader has seen
HexDigest(s) == <<"hex", HashSum(s) % HashMod>>

NoChecksum == [Algorithm |-> "", Value |-> <<>>]

\* newChecksum: the header value split at spaces
newChecksum(value) ==
  IF value = <<>> THEN [ok |-> TRUE, c |-> NoChecksum, msg |-> ""]
  ELSE IF Len(value) # 2
    THEN [ok |-> FALSE, c |-> NoChecksum, msg |-> "invalid checksum format"]
  ELSE IF value[1] # "md5" /\ value[1] # "sha1"
    THEN [ok |-> FALSE, c |-> NoChecksum, msg |-> "unsupported checksum algorithm"]
  ELSE [ok |-> TRUE, c |-> [Algorithm |-> value[1], Value |-> value[2]], msg |-> ""]


\* ------------------------------------------------------------------ state
VARIABLES
  extensions,   \* Controller.extensions
  maxSize,      \* Controller.maxSize
  store,        \* Store.files: id -> File, defined on the ids that were saved
  blob,         \* the files under /tmp: path -> bytes, defined on the files that exist
  now,          \* time.Now()
  patch,        \* per worker: the ResumeUpload call it runs and its locals
  resp,         \* the response sent last; the server as it runs (Next) has
                \* it read by its client before the next step is followed
  accepted,     \* the number of PATCH requests that passed the checks so far
  watchers      \* per worker: the goroutine its ResumeUpload call started
                \* (it only logs; WatchSpec alone follows it)

vars == <<extensions, maxSize, store, blob, now, patch, resp, accepted, watchers>>

\* time.Time's zero value, and the two comparisons the handlers use
ZeroTime == 0
\* every instant taken for the zero value
IsZeroAlways(t) == TRUE
IsZero(t) == t = ZeroTime
Before(t, u) == t < u

\* uploadExpiresAt: the instant in RFC1123-GMT
uploadExpiresAt(t) == <<"GMT", t>>

NoFile ==
  [ID |-> 0, Name |-> "", TotalSize |-> 0, UploadedSize |-> 0, ContentType |-> "",
   Checksum |-> "", ExpiresAt |-> ZeroTime, Path |-> 0]

\* An Upload-Metadata value is the sequence of its comma-separated pairs, a
\* pair the sequence of its space-separated fields; a base64 text is written
\* <<"b64", text>>.
Base64(text) == <<"b64", text>>
DecodeString(field) ==
  IF Len(field) = 2 /\ field[1] = "b64" THEN [ok |-> TRUE, v |-> field[2]]
  ELSE [ok |-> FALSE, v |-> ""]

\* the pairs that strings.Split leaves after the empty ones are skipped
MetadataPairs(m) == {k \in DOMAIN m : m[k] # <<>>}

\* the value md[key] holds after the loop: that of the last pair with the key
MetadataValue(m, key) ==
  LET ks == {k \in MetadataPairs(m) : m[k][1] = key}
  IN  IF ks = {} THEN [ok |-> FALSE, v |-> ""]
      ELSE [ok |-> TRUE, v |-> DecodeString(m[CHOOSE k \in ks : \A j \in ks : j <= k][2]).v]

\* File.parseMetadata: the fields are set only when every pair has two fields
\* with a base64 second one, and the three keys are all there
parseMetadata(f, m) ==
  IF \E k \in MetadataPairs(m) : Len(m[k]) # 2 \/ ~DecodeString(m[k][2]).ok THEN f
  ELSE IF ~MetadataValue(m, "content-type").ok THEN f
  ELSE IF ~MetadataValue(m, "checksum").ok THEN f
  ELSE IF ~MetadataValue(m, "filename").ok THEN f
  ELSE [f EXCEPT !.Name = MetadataValue(m, "filename").v,
                 !.ContentType = MetadataValue(m, "content-type").v,
                 !.Checksum = MetadataValue(m, "checksum").v]

\* a record created as if its bytes were already uploaded
NewFileUploaded(id, size, metadata, expiresAt) ==
  [NoFile EXCEPT !.ID = id, !.TotalSize = size, !.UploadedSize = size,
                 !.ExpiresAt = expiresAt, !.Path = id]

\* a record whose file is the same for every upload
NewFileOnePath(id, size, metadata, expiresAt) ==
  parseMetadata([NoFile EXCEPT !.ID = id, !.TotalSize = size, !.ExpiresAt = expiresAt,
                               !.Path = 1],
                metadata)

\* NewFile: the id and the path are two fresh uuids; the model names both by
\* the same fresh number
NewFile(id, size, metadata, expiresAt) ==
  parseMetadata([NoFile EXCEPT !.ID = id, !.TotalSize = size, !.ExpiresAt = expiresAt,
                               !.Path = id],
                metadata)

\* a lookup that finds a record under every id
FindAnything(id) == [fm |-> NoFile, ok |-> TRUE]

\* Store.Find and Store.Save, each atomic under the store's RWMutex
Find(id) ==
  IF id \in DOMAIN store THEN [fm |-> store[id], ok |-> TRUE]
  ELSE [fm |-> NoFile, ok |-> FALSE]

\* a save that is lost
SaveNothing(id, f) == store

Save(id, f) == [i \in DOMAIN store \cup {id} |-> IF i = id THEN f ELSE store[i]]

\* ------------------------------------------------------------- responses
NoHeader == <<>>
NoBody   == <<>>

\* w.Write of a plain string, and writeError's json.Marshal(cError{Message})
\* (written is no part of the response: it is the byte count io.Copy returned
\* to the handler that sent it, the written_size of its log)
TextBody(msg) == <<"text", msg>>
JsonBody(msg) == <<"json", msg>>

NoResp ==
  [method |-> "NONE", worker |-> "", id |-> 0, status |-> 0, body |-> NoBody,
   offset |-> NoHeader, length |-> NoHeader, expires |-> NoHeader,
   location |-> NoHeader, cacheControl |-> "",
   metadata |-> NoHeader, tusResumable |-> NoHeader,
   tusVersion |-> NoHeader, tusExtension |-> NoHeader, tusMaxSize |-> NoHeader,
   tusChecksumAlgorithm |-> NoHeader,
   written |-> 0]

\* TusResumableHeaderInjections: the header every handler but that of OPTIONS
\* finds set on its ResponseWriter
TusResumableHeaderInjections(method) ==
  IF method # "OPTIONS" THEN <<TusVersion>> ELSE NoHeader

\* what a handler sends: it was called through the two filters
Response(method, worker, id, status, body) ==
  [NoResp EXCEPT !.method = method, !.worker = worker, !.id = id,
                 !.status = status, !.body = body,
                 !.tusResumable = TusResumableHeaderInjections(method)]

\* an error answered as a success
writeErrorOk(method, worker, id, code, msg) ==
  Response(method, worker, id, 204, NoBody)

\* writeError(w, code, err): the status, then the JSON body
writeError(method, worker, id, code, msg) ==
  Response(method, worker, id, code, JsonBody(msg))

\* ------------------------------------------------------------ the requests
Idle ==
  [pc |-> "idle", id |-> 0, body |-> <<>>, checksum |-> NoChecksum,
   fm |-> NoFile, originalPos |-> 0, n |-> 0]

RECURSIVE SeqsUpTo(_, _)
SeqsUpTo(S, k) ==
  IF k = 0 THEN {<<>>}
  ELSE LET shorter == SeqsUpTo(S, k - 1)
       IN  shorter \cup {Append(s, b) : s \in shorter, b \in S}

Bodies == SeqsUpTo(Bytes, MaxBody)

\* Upload-Length of a POST: missing, signed, or a number
UploadLengthHeaders == {<<>>, <<"-", "1">>} \cup {FormatUint(v) : v \in {0, MaxTotal}}

UploadDeferLengthHeaders == {<<>>, <<"1">>, <<"2">>}

\* the POST requests that pass the header checks: a length without metadata
\* or with the file name alone, and another length with the three keys the
\* server reads
GoodPosts ==
  { [uploadDeferLength |-> <<>>, totalLength |-> FormatUint(0), uploadMetadata |-> <<>>],
    [uploadDeferLength |-> <<>>, totalLength |-> FormatUint(0),
     uploadMetadata |-> << <<"filename", Base64("a.txt")>> >>],
    [uploadDeferLength |-> <<>>, totalLength |-> FormatUint(MaxTotal),
     uploadMetadata |-> << <<"content-type", Base64("text/plain")>>,
                           <<"checksum", Base64("abc")>>,
                           <<"filename", Base64("a.txt")>> >>] }

\* the POST requests with Upload-Defer-Length set, or Upload-Length missing
\* or signed
BadPosts ==
  [uploadDeferLength : UploadDeferLengthHeaders \ {<<>>},
   totalLength : {FormatUint(MaxTotal)}, uploadMetadata : {<<>>}]
  \cup [uploadDeferLength : {<<>>},
        totalLength : {l \in UploadLengthHeaders : ~ParseUint(l).ok},
        uploadMetadata : {<<>>}]

PostRequests == GoodPosts \cup BadPosts

\* Tus-Resumable of a request: missing, the server's version, or a later one
TusResumableHeaders == {"", TusVersion, "2.0.0"}

OffsetOctetStream == "application/offset+octet-stream"

\* the PATCH requests with well-formed headers: an offset, the content type,
\* no checksum or a hex digest under md5, and a body
GoodPatches ==
  [uploadOffset : {FormatUint(v) : v \in 0..MaxBlob},
   contentType : {OffsetOctetStream},
   uploadChecksum : {<<>>} \cup {<<"md5", <<"hex", h>>>> : h \in 0..(HashMod - 1)},
   body : Bodies]

\* the PATCH requests with one or several headers missing or malformed: the
\* offset missing or signed, another content type, a checksum of one token
\* or of an algorithm that is not supported
BadPatches ==
  [uploadOffset : {<<>>, <<"-", "1">>, <<"0">>},
   contentType : {OffsetOctetStream, "application/json"},
   uploadChecksum : {<<>>, <<"md5">>, <<"crc32", HexDigest(<<>>)>>},
   body : {<<>>}]
    \ GoodPatches

PatchRequests == GoodPatches \cup BadPatches

\* the PATCH requests with the ids they name: every request on the ids the
\* server issues, and a well-formed one on the id it never issues
PatchTargets ==
  (Ids \X PatchRequests)
  \cup ((RequestIds \ Ids) \X
          {rq \in GoodPatches : /\ rq.uploadOffset = FormatUint(0)
                                /\ rq.uploadChecksum = <<>>
                                /\ rq.body = <<>>})

Init ==
  /\ \E c \in Controllers : extensions = c.extensions /\ maxSize = c.maxSize
  /\ store = <<>>
  /\ blob = <<>>
  /\ now = ZeroTime + 1
  /\ patch = [w \in Workers |-> Idle]
  /\ resp = NoResp
  /\ accepted = 0
  /\ watchers = [w \in Workers |-> "none"]

\* ------------------------------------------------------------ the filters
\* what TusResumableHeaderCheck decides for a request: 0 when the next
\* handler is called, else the status it answers with
TusResumableVerdict(method, tusResumable) ==
  IF method = "OPTIONS" THEN 0
  ELSE IF tusResumable = "" THEN 400
  ELSE IF ~\E k \in DOMAIN SupportedTusVersion : SupportedTusVersion[k] = tusResumable
    THEN 412
  ELSE 0

\* TusResumableHeaderCheck around a handler: the handler is called, or the
\* filter answers and nothing else happens
TusResumableHeaderCheck(method, tusResumable, next) ==
  LET verdict == TusResumableVerdict(method, tusResumable)
  IN  IF verdict = 0 THEN next
      ELSE /\ resp' = [NoResp EXCEPT
                         !.method = method, !.status = verdict,
                         !.body = TextBody(IF verdict = 400
                                           THEN "Tus-Resumable header is missing"
                                           ELSE "Tus version not supported")]
           /\ UNCHANGED <<accepted, extensions, maxSize, store, blob, now, patch>>

\* ---------------------------------------------------------- OPTIONS /files
\* the response of GetConfig for a controller with these extensions and
\* this maxSize
ConfigHeaders(e, m) ==
  [Response("OPTIONS", "", 0, 204, NoBody) EXCEPT
     !.tusVersion = Join(SupportedTusVersion, ","),
     !.tusExtension = IF Len(e) > 0 THEN Join(e, ",") ELSE NoHeader,
     !.tusMaxSize = IF m # 0 THEN FormatUint(m) ELSE NoHeader,
     !.tusChecksumAlgorithm =
        IF Enabled(e, ChecksumExtension)
        THEN Join(SupportedChecksumAlgorithms, ",") ELSE NoHeader]

GetConfig ==
  /\ resp' = ConfigHeaders(extensions, maxSize)
  /\ UNCHANGED <<accepted, extensions, maxSize, store, blob, now, patch>>

\* ------------------------------------------------------------- POST /files
\* the id uuid.New() returns: one the store has never held, the least of ids
FreshIn(ids) == CHOOSE i \in ids \ DOMAIN store : \A j \in ids \ DOMAIN store : i <= j

FreshId == FreshIn(Ids)

\* header checks that let every POST pass
PostChecksNone(uploadDeferLength, totalLength) == [code |-> 0, msg |-> ""]

\* the header checks of CreateUpload: a rejection with its status and its
\* message, or, with status 0, that the handler goes on
PostChecks(uploadDeferLength, totalLength) ==
  IF uploadDeferLength # <<>> /\ uploadDeferLength # <<"1">>
    THEN [code |-> 400, msg |-> "Invalid Upload-Defer-Length header"]
  ELSE IF uploadDeferLength = <<"1">>
    THEN [code |-> 501, msg |-> "Upload-Defer-Length is not implemented"]
  ELSE IF ~ParseUint(totalLength).ok
    THEN [code |-> 400, msg |-> "Invalid Upload-Length header"]
  ELSE [code |-> 0, msg |-> ""]

\* CreateUpload on a server that issues the ids of the set ids
CreateUploadIn(ids, uploadDeferLength, totalLength, uploadMetadata) ==
  LET d         == PostChecks(uploadDeferLength, totalLength)
      totalSize == ParseUint(totalLength).v
      tooLarge  == maxSize > 0 /\ totalSize > maxSize
      fm        == NewFile(FreshIn(ids), totalSize, uploadMetadata, now + UploadMaxDuration)
  IN
  IF d.code # 0
  THEN /\ resp' = Response("POST", "", 0, d.code, TextBody(d.msg))
       /\ UNCHANGED <<accepted, extensions, maxSize, store, blob, now, patch>>
  ELSE /\ ids \ DOMAIN store # {}
       /\ store' = Save(fm.ID, fm)
       \* the 413 is written and the handler goes on: the headers it adds
       \* after the status line are not sent, the second status is dropped
       /\ resp' = IF tooLarge
                  THEN Response("POST", "", fm.ID, 413,
                                TextBody("Upload-Length exceeds the maximum sizeCreateUpload"))
                  ELSE [Response("POST", "", fm.ID, 201, TextBody("CreateUpload"))
                          EXCEPT !.location = <<"/files/", fm.ID>>,
                                 !.expires = IF IsZero(fm.ExpiresAt) THEN NoHeader
                                             ELSE uploadExpiresAt(fm.ExpiresAt)]
       /\ UNCHANGED <<accepted, extensions, maxSize, blob, now, patch>>

CreateUpload(uploadDeferLength, totalLength, uploadMetadata) ==
  CreateUploadIn(Ids, uploadDeferLength, totalLength, uploadMetadata)

\* ------------------------------------------------------- HEAD /files/{id}
\* a HEAD that renews the expiry of the records
GetOffsetRenewing(fileID) ==
  /\ resp' = Response("HEAD", "", fileID, 204, NoBody)
  /\ store' = [i \in DOMAIN store |->
                 [store[i] EXCEPT !.ExpiresAt = now + UploadMaxDuration]]
  /\ UNCHANGED <<accepted, extensions, maxSize, blob, now, patch>>

\* a HEAD that reports Upload-Offset 0 for every record
GetOffsetFromZero(fileID) ==
  /\ resp' = [Response("HEAD", "", fileID, 204, NoBody) EXCEPT !.offset = FormatUint(0)]
  /\ UNCHANGED <<accepted, extensions, maxSize, store, blob, now, patch>>

\* what GetOffset answers for this id, with the store and the clock as they
\* are
HeadAnswer(fileID) ==
  LET found == Find(fileID)
      fm    == found.fm
      hdrs  == [Response("HEAD", "", fileID, 204, NoBody)
                  EXCEPT !.offset = FormatUint(fm.UploadedSize),
                         !.length = FormatUint(fm.TotalSize),
                         !.cacheControl = "no-store",
                         !.expires = IF IsZero(fm.ExpiresAt) THEN NoHeader
                                     ELSE uploadExpiresAt(fm.ExpiresAt)]
  IN  IF ~found.ok
      THEN Response("HEAD", "", fileID, 404, TextBody("File not found"))
      ELSE IF ~IsZero(fm.ExpiresAt) /\ Before(fm.ExpiresAt, now)
      THEN [hdrs EXCEPT !.status = 410, !.body = JsonBody("file expired")]
      ELSE hdrs

GetOffset(fileID) ==
  /\ resp' = HeadAnswer(fileID)
  /\ UNCHANGED <<accepted, extensions, maxSize, store, blob, now, patch>>


\* ------------------------------------------------------ PATCH /files/{id}
\* the verifier taken as active for every request
ChecksumActiveAlways(c) == TRUE

\* the checksum verifier is active for this request
ChecksumActive(c) == Enabled(extensions, ChecksumExtension) /\ c.Algorithm # ""

\* the offset check, accepting an offset behind the record's
OffsetMatchesBehind(offset, fm) == offset <= fm.UploadedSize

\* the offset check of ResumeUpload
OffsetMatches(offset, fm) == offset = fm.UploadedSize

\* an expiry check that lets every record pass
PatchExpiredNever(fm) == FALSE

\* the expiry check of ResumeUpload
PatchExpired(fm) == Enabled(extensions, ExpirationExtension) /\ Before(fm.ExpiresAt, now)

\* the bytes the requests in flight on a file have still to write
RECURSIVE Pending(_, _)
Pending(ws, path) ==
  IF ws = {} THEN 0
  ELSE LET w == CHOOSE v \in ws : TRUE
           r == patch[w]
       IN  (IF r.pc # "idle" /\ r.fm.Path = path THEN Len(r.body) - r.n ELSE 0)
             + Pending(ws \ {w}, path)

BlobLen(path) == IF path \in DOMAIN blob THEN Len(blob[path]) ELSE 0

\* the model's bound on the size of a file
Fits(path, body) == BlobLen(path) + Pending(Workers, path) + Len(body) <= MaxBlob

\* the goroutine the next PATCH runs on: the first that serves no request
FirstIdle ==
  LET i == CHOOSE k \in DOMAIN WorkerOrder :
             /\ patch[WorkerOrder[k]].pc = "idle"
             /\ \A j \in 1..(k - 1) : patch[WorkerOrder[j]].pc # "idle"
  IN  IF \E k \in DOMAIN WorkerOrder : patch[WorkerOrder[k]].pc = "idle"
      THEN WorkerOrder[i] ELSE ""

\* what the checks of a PATCH decide: a rejection with a status and a
\* message, or, with status 0, that the upload goes on
\* a rejection that lets the upload go on
RejectNothing(code, msg) == [code |-> 0, msg |-> ""]
Reject(code, msg) == [code |-> code, msg |-> msg]
GoOn == [code |-> 0, msg |-> ""]

\* the checksum the handler parses: none when the extension is not enabled
ParsedChecksum(uploadChecksum) ==
  IF Enabled(extensions, ChecksumExtension)
  THEN newChecksum(uploadChecksum)
  ELSE [ok |-> TRUE, c |-> NoChecksum, msg |-> ""]

\* the checks with the offset and the content type looked at before the
\* checksum
PatchChecksOffsetFirst(fileID, rq) ==
  LET parsedSum == ParsedChecksum(rq.uploadChecksum)
      parsedOff == ParseUint(rq.uploadOffset)
      found     == Find(fileID)
  IN
  IF ~parsedOff.ok
    THEN Reject(400, "invalid Upload-Offset header: not a number")
  ELSE IF rq.contentType # OffsetOctetStream
    THEN Reject(415, "invalid Content-Type header: expected application/offset+octet-stream")
  ELSE IF ~parsedSum.ok THEN Reject(400, parsedSum.msg)
  ELSE IF ~found.ok THEN Reject(404, "file not found")
  ELSE IF PatchExpired(found.fm) THEN Reject(410, "file expired")
  ELSE IF ~OffsetMatches(parsedOff.v, found.fm)
    THEN Reject(409, "upload-Offset header does not match the current offset")
  ELSE GoOn

\* the header checks, the lookup, the expiry check and the offset check, in
\* the order the handler makes them
PatchChecks(fileID, rq) ==
  LET parsedSum == ParsedChecksum(rq.uploadChecksum)
      parsedOff == ParseUint(rq.uploadOffset)
      found     == Find(fileID)
  IN
  IF ~parsedSum.ok THEN Reject(400, parsedSum.msg)
  ELSE IF ~parsedOff.ok
    THEN Reject(400, "invalid Upload-Offset header: not a number")
  ELSE IF rq.contentType # OffsetOctetStream
    THEN Reject(415, "invalid Content-Type header: expected application/offset+octet-stream")
  ELSE IF ~found.ok THEN Reject(404, "file not found")
  ELSE IF PatchExpired(found.fm) THEN Reject(410, "file expired")
  ELSE IF ~OffsetMatches(parsedOff.v, found.fm)
    THEN Reject(409, "upload-Offset header does not match the current offset")
  ELSE GoOn

\* the handler up to the offset check: a rejection is answered, an upload
\* that goes on keeps the snapshot of the record it looked up
\* (cap: the number of PATCH requests that may get past the checks)
PatchBeginUpTo(cap, w, fileID, rq) ==
  LET d == PatchChecks(fileID, rq)
  IN
  /\ w = FirstIdle
  /\ IF d # GoOn
     THEN /\ resp' = writeError("PATCH", w, fileID, d.code, d.msg)
          /\ UNCHANGED <<accepted, extensions, maxSize, store, blob, now, patch>>
     ELSE /\ Fits(Find(fileID).fm.Path, rq.body)
          /\ accepted < cap
          /\ accepted' = accepted + 1
          /\ patch' = [patch EXCEPT ![w] =
               [Idle EXCEPT !.pc = "open", !.id = fileID, !.body = rq.body,
                            !.checksum = ParsedChecksum(rq.uploadChecksum).c,
                            !.fm = Find(fileID).fm]]
          /\ UNCHANGED <<extensions, maxSize, store, blob, now, resp>>

PatchBegin(w, fileID, rq) == PatchBeginUpTo(MaxPatches, w, fileID, rq)

\* os.OpenFile(fm.Path, O_CREATE|O_WRONLY|O_APPEND) and f.Seek(0, io.SeekEnd)
PatchOpen(w, outcome) ==
  LET r    == patch[w]
      path == r.fm.Path
      made == [p \in DOMAIN blob \cup {path} |-> IF p \in DOMAIN blob THEN blob[p] ELSE <<>>]
  IN
  /\ r.pc = "open"
  /\ CASE outcome = "open failed" ->
            /\ resp' = writeError("PATCH", w, r.id, 400, "error opening the file")
            /\ patch' = [patch EXCEPT ![w] = Idle]
            /\ UNCHANGED <<accepted, extensions, maxSize, store, blob, now>>
       [] outcome = "seek failed" ->
            /\ blob' = made
            /\ resp' = writeError("PATCH", w, r.id, 500, "error preparing file")
            /\ patch' = [patch EXCEPT ![w] = Idle]
            /\ UNCHANGED <<accepted, extensions, maxSize, store, now>>
       [] outcome = "ok" ->
            /\ blob' = made
            /\ patch' = [patch EXCEPT ![w].pc = "copy", ![w].originalPos = Len(made[path])]
            /\ UNCHANGED <<accepted, extensions, maxSize, store, now, resp>>

\* one round of io.Copy: the next byte of the body is appended to the file
\* (O_APPEND: at the end of the file as it is now)
PatchWrite(w) ==
  LET r    == patch[w]
      path == r.fm.Path
  IN
  /\ r.pc = "copy"
  /\ r.n < Len(r.body)
  /\ blob' = [blob EXCEPT ![path] = Append(@, r.body[r.n + 1])]
  /\ patch' = [patch EXCEPT ![w].n = r.n + 1]
  /\ UNCHANGED <<accepted, extensions, maxSize, store, now, resp>>

\* a truncate that leaves the file as it is
TruncateNothing(bytes, size) == bytes

\* f.Truncate(size): the file is cut, or filled with zero bytes, to size
Truncate(bytes, size) ==
  IF size <= Len(bytes) THEN SubSeq(bytes, 1, size)
  ELSE bytes \o [i \in 1..(size - Len(bytes)) |-> 0]

\* the snapshot saved as it was read
AdvancedByNothing(fm, n) == fm

\* the snapshot advanced, with its expiry renewed
AdvancedRenewing(fm, n) ==
  [fm EXCEPT !.UploadedSize = fm.UploadedSize + n, !.ExpiresAt = now + UploadMaxDuration]

\* the File a PATCH saves: its snapshot, advanced by the bytes it wrote
Advanced(fm, n) == [fm EXCEPT !.UploadedSize = fm.UploadedSize + n]

\* a 204 of PATCH that carries no Upload-Expires
PatchOkNoExpiry(w, fm) ==
  [Response("PATCH", w, fm.ID, 204, NoBody) EXCEPT !.offset = FormatUint(fm.UploadedSize)]

\* the 204 of a PATCH
PatchOk(w, fm) ==
  [Response("PATCH", w, fm.ID, 204, NoBody)
     EXCEPT !.offset = FormatUint(fm.UploadedSize),
            !.expires = IF IsZero(fm.ExpiresAt) THEN NoHeader
                        ELSE uploadExpiresAt(fm.ExpiresAt)]

\* io.Copy returned without an error: the body was read to its end
PatchFinish(w) ==
  LET r    == patch[w]
      path == r.fm.Path
      fm   == Advanced(r.fm, r.n)
  IN
  /\ r.pc = "copy"
  /\ r.n = Len(r.body)
  /\ IF ChecksumActive(r.checksum) /\ HexDigest(SubSeq(r.body, 1, r.n)) # r.checksum.Value
     THEN /\ blob' = [blob EXCEPT ![path] = Truncate(@, r.originalPos)]
          /\ resp' = [writeError("PATCH", w, r.id, 460, "checksum mismatch")
                        EXCEPT !.written = r.n]
          /\ UNCHANGED store
     ELSE /\ store' = Save(fm.ID, fm)
          /\ resp' = [PatchOk(w, fm) EXCEPT !.written = r.n]
          /\ UNCHANGED blob
  /\ patch' = [patch EXCEPT ![w] = Idle]
  /\ UNCHANGED <<accepted, extensions, maxSize, now>>

\* io.Copy returned an error after n bytes: a read of the body or a write of
\* the file failed
PatchFail(w, timeout) ==
  LET r    == patch[w]
      path == r.fm.Path
      fm   == Advanced(r.fm, r.n)
  IN
  /\ r.pc = "copy"
  /\ IF ChecksumActive(r.checksum)
     THEN /\ blob' = [blob EXCEPT ![path] = Truncate(@, r.originalPos)]
          /\ resp' = [writeError("PATCH", w, r.id, 500, "error writing file")
                        EXCEPT !.written = r.n]
          /\ UNCHANGED store
     ELSE /\ store' = Save(fm.ID, fm)
          /\ resp' = [(IF timeout
                        THEN writeError("PATCH", w, r.id, 408, "network timeout: i/o timeout")
                        ELSE writeError("PATCH", w, r.id, 500,
                                        "error writing the file: unexpected EOF"))
                        EXCEPT !.written = r.n]
          /\ UNCHANGED blob
  /\ patch' = [patch EXCEPT ![w] = Idle]
  /\ UNCHANGED <<accepted, extensions, maxSize, now>>

\* ------------------------------------------------------------------ clock
\* a clock that is set back when it reaches its bound
TickAround ==
  /\ now' = IF now < MaxNow THEN now + 1 ELSE ZeroTime + 1
  /\ UNCHANGED <<accepted, extensions, maxSize, store, blob, patch, resp>>

\* time passes
Tick ==
  /\ now < MaxNow
  /\ now' = now + 1
  /\ UNCHANGED <<accepted, extensions, maxSize, store, blob, patch, resp>>

\* ---------------------------------------------------------- specifications
\* no other worker runs a PATCH on this id
Alone(w, fileID) == \A v \in Workers \ {w} : patch[v].pc = "idle" \/ patch[v].id # fileID

\* the routes of the server, each behind the filters
ServeOptions(tusResumable) == TusResumableHeaderCheck("OPTIONS", tusResumable, GetConfig)

ServePost(tusResumable) ==
  TusResumableHeaderCheck("POST", tusResumable,
    \E rq \in PostRequests :
       CreateUpload(rq.uploadDeferLength, rq.totalLength, rq.uploadMetadata))

ServeHead(tusResumable) ==
  TusResumableHeaderCheck("HEAD", tusResumable, \E i \in RequestIds : GetOffset(i))

ServePatch(tusResumable) ==
  TusResumableHeaderCheck("PATCH", tusResumable,
    \E w \in Workers, t \in PatchTargets : PatchBegin(w, t[1], t[2]))

\* the PATCH route when the requests on one id do not overlap
ServePatchAlone(tusResumable) ==
  TusResumableHeaderCheck("PATCH", tusResumable,
    \E w \in Workers, t \in PatchTargets :
       Alone(w, t[1]) /\ PatchBegin(w, t[1], t[2]))

\* A response belongs to its request alone: the handler writes it to the
\* ResponseWriter of that request, the client reads it, and no handler ever
\* reads a response. The order of that read and of the server's next step
\* makes no difference to the store, the blobs or the uploads in progress, so
\* the server as it runs is followed with the read first: a step is taken
\* when no response waits for its client (Quiet), and the client's read
\* (Receive) takes the response away. Every run of the handlers is still
\* there, and every response is seen in the state its step leaves.
Quiet == resp = NoResp

\* the client reads the response of its request
Receive ==
  /\ resp # NoResp
  /\ resp' = NoResp
  /\ UNCHANGED <<accepted, extensions, maxSize, store, blob, now, patch>>

Next ==
  \/ Quiet /\ \E v \in TusResumableHeaders : ServeOptions(v) /\ UNCHANGED watchers
  \/ Quiet /\ \E v \in TusResumableHeaders : ServePost(v) /\ UNCHANGED watchers
  \/ Quiet /\ \E v \in TusResumableHeaders : ServeHead(v) /\ UNCHANGED watchers
  \/ Quiet /\ \E v \in TusResumableHeaders : ServePatch(v) /\ UNCHANGED watchers
  \/ Quiet /\ \E w \in Workers, o \in {"ok", "open failed", "seek failed"} : PatchOpen(w, o) /\ UNCHANGED watchers
  \/ Quiet /\ \E w \in Workers : PatchWrite(w) /\ UNCHANGED watchers
  \/ Quiet /\ \E w \in Workers : PatchFinish(w) /\ UNCHANGED watchers
  \/ Quiet /\ \E w \in Workers, t \in BOOLEAN : PatchFail(w, t) /\ UNCHANGED watchers
  \/ Quiet /\ Tick /\ UNCHANGED watchers
  \/ Receive /\ UNCHANGED watchers

\* the server as it runs: the PATCH handlers of all workers interleave
Spec == Init /\ [][Next]_vars

\* the same requests, sent so that the PATCHes on one id do not overlap
SeqNext ==
  \/ Quiet /\ \E v \in TusResumableHeaders : ServeOptions(v) /\ UNCHANGED watchers
  \/ Quiet /\ \E v \in TusResumableHeaders : ServePost(v) /\ UNCHANGED watchers
  \/ Quiet /\ \E v \in TusResumableHeaders : ServeHead(v) /\ UNCHANGED watchers
  \/ Quiet /\ \E v \in TusResumableHeaders : ServePatchAlone(v) /\ UNCHANGED watchers
  \/ Quiet /\ \E w \in Workers, o \in {"ok", "open failed", "seek failed"} : PatchOpen(w, o) /\ UNCHANGED watchers
  \/ Quiet /\ \E w \in Workers : PatchWrite(w) /\ UNCHANGED watchers
  \/ Quiet /\ \E w \in Workers : PatchFinish(w) /\ UNCHANGED watchers
  \/ Quiet /\ \E w \in Workers, t \in BOOLEAN : PatchFail(w, t) /\ UNCHANGED watchers
  \/ Quiet /\ Tick /\ UNCHANGED watchers
  \/ Receive /\ UNCHANGED watchers

SeqSpec == Init /\ [][SeqNext]_vars


\* ------------------------------------------------------------ the claims
InFlight(w) == patch[w].pc # "idle"

\* worker w runs a PATCH on id i
PatchOn(w, i) == InFlight(w) /\ patch[w].id = i

\* the step in which the handler of worker w returns after io.Copy
Returns(w) == patch[w].pc = "copy" /\ patch'[w].pc = "idle"

\* C1: every stored record satisfies 0 <= uploaded_size <= total_size, after
\* any sequence of POST, HEAD and PATCH requests
C1_UploadedWithinTotal ==
  \A i \in DOMAIN store :
    0 <= store[i].UploadedSize /\ store[i].UploadedSize <= store[i].TotalSize

\* C2: two PATCHes on one id that both carry the current uploaded_size never
\* both pass the offset check and append at that offset
C2_PatchesSerialized ==
  \A v, w \in Workers :
    (v # w /\ PatchOn(v, patch[w].id) /\ InFlight(w)
       /\ patch[v].fm.UploadedSize = patch[w].fm.UploadedSize)
      => ~(patch[v].n > 0 /\ patch[w].n > 0)

\* C3: whenever no PATCH is in progress on an id, the blob of that id holds
\* exactly uploaded_size bytes
C3_BlobHoldsUploadedSize ==
  \A i \in DOMAIN store :
    (\A w \in Workers : ~PatchOn(w, i))
      => BlobLen(store[i].Path) = store[i].UploadedSize

\* C4: the uploaded_size of a record, as the store holds it, never decreases
C4_UploadedSizeNeverDecreases ==
  [][\A i \in DOMAIN store : store'[i].UploadedSize >= store[i].UploadedSize]_vars

\* the checks of a PATCH that come before the offset check all pass
ReachesOffsetCheck(i, rq) ==
  /\ Enabled(extensions, ChecksumExtension) => newChecksum(rq.uploadChecksum).ok
  /\ ParseUint(rq.uploadOffset).ok
  /\ rq.contentType = OffsetOctetStream
  /\ i \in DOMAIN store
  /\ ~(Enabled(extensions, ExpirationExtension) /\ Before(store[i].ExpiresAt, now))

\* C5: a PATCH that reaches the offset check with an Upload-Offset other than
\* the record's uploaded_size is answered 409 with the body
\* {"message":"upload-Offset header does not match the current offset"}, and
\* the 409 changes neither the store nor any blob nor starts an upload
C5_OffsetMismatchIs409 ==
  /\ [](\A i \in DOMAIN store, rq \in PatchRequests :
          (ReachesOffsetCheck(i, rq)
             /\ ParseUint(rq.uploadOffset).v # store[i].UploadedSize)
          => PatchChecks(i, rq) =
               Reject(409, "upload-Offset header does not match the current offset"))
  /\ [][(resp'.status = 409 /\ resp' # resp)
          => /\ resp'.method = "PATCH"
             /\ resp'.body = <<"json", "upload-Offset header does not match the current offset">>
             /\ store' = store /\ blob' = blob /\ patch' = patch]_vars

\* C5 witness: a 409 was sent for a record that already holds bytes
C5_Witness ==
  /\ resp.method = "PATCH" /\ resp.status = 409
  /\ resp.id \in DOMAIN store
  /\ store[resp.id].UploadedSize > 0
  /\ BlobLen(store[resp.id].Path) > 0


\* C6: a successful PATCH adds the length of its body to uploaded_size, and
\* its 204 carries the uploaded_size it committed in Upload-Offset; so N
\* successful PATCHes leave uploaded_size at the sum of their body lengths
C6_SuccessfulPatchAddsBody ==
  [][\A w \in Workers :
       (Returns(w) /\ resp'.status = 204 /\ resp'.worker = w)
       => LET i == patch[w].id
          IN  /\ store'[i].UploadedSize = store[i].UploadedSize + Len(patch[w].body)
              /\ resp'.offset = FormatUint(store'[i].UploadedSize)]_vars

\* the checksum verifier runs for the PATCH of worker w
VerifierRuns(w) ==
  Enabled(extensions, ChecksumExtension) /\ patch[w].checksum.Algorithm # ""

\* C7: with the checksum extension enabled, a PATCH whose Upload-Checksum
\* digest differs from the digest of the fully read body is answered 460 with
\* the body {"message":"checksum mismatch"}, the blob is cut back to the
\* length it had before the PATCH wrote, and the record is not updated
C7_ChecksumMismatchRollsBack ==
  [][\A w \in Workers :
       (PatchFinish(w) /\ VerifierRuns(w)
          /\ HexDigest(patch[w].body) # patch[w].checksum.Value)
       => /\ resp'.status = 460
          /\ resp'.body = <<"json", "checksum mismatch">>
          /\ resp'.offset = NoHeader
          /\ Len(blob'[patch[w].fm.Path]) = patch[w].originalPos
          /\ store' = store]_vars

\* C7 witness: a 460 was sent for a PATCH that had written bytes
C7_Witness ==
  /\ resp.status = 460 /\ resp.written > 0
  /\ resp.id \in DOMAIN store

\* the bytes of a file were cut, or zero bytes were put behind them
Truncated(p) ==
  /\ p \in DOMAIN blob
  /\ \/ Len(blob'[p]) < Len(blob[p])
     \/ \E k \in DOMAIN blob'[p] : k > Len(blob[p]) /\ blob'[p][k] = 0

\* C8: a PATCH that fails, for any reason, leaves uploaded_size at its value
\* before the response plus the bytes of the request that stay in the blob;
\* for a checksum mismatch that is no change
C8_FailedPatchCountsDurableBytes ==
  [][(resp' # resp /\ resp'.method = "PATCH" /\ resp'.status # 204
        /\ resp'.id \in DOMAIN store)
       => LET i == resp'.id
              durable == IF Truncated(store[i].Path) THEN 0 ELSE resp'.written
          IN  /\ store'[i].UploadedSize = store[i].UploadedSize + durable
              /\ resp'.status = 460 => store' = store]_vars

Violates(check, i, rq) ==
  CASE check = "offset"   -> ~ParseUint(rq.uploadOffset).ok
    [] check = "type"     -> rq.contentType # OffsetOctetStream
    [] check = "checksum" -> Enabled(extensions, ChecksumExtension)
                               /\ ~newChecksum(rq.uploadChecksum).ok
    [] check = "lookup"   -> i \notin DOMAIN store
    [] check = "expiry"   -> /\ i \in DOMAIN store
                             /\ Enabled(extensions, ExpirationExtension)
                             /\ store[i].ExpiresAt < now
    [] check = "match"    -> /\ i \in DOMAIN store
                             /\ ParseUint(rq.uploadOffset).ok
                             /\ ParseUint(rq.uploadOffset).v # store[i].UploadedSize

\* the status and the message the handler answers a violation with
AnswerOf(check, rq) ==
  CASE check = "offset"   -> [code |-> 400, msg |-> "invalid Upload-Offset header: not a number"]
    [] check = "type"     -> [code |-> 415, msg |-> "invalid Content-Type header: expected application/offset+octet-stream"]
    [] check = "checksum" -> [code |-> 400, msg |-> newChecksum(rq.uploadChecksum).msg]
    [] check = "lookup"   -> [code |-> 404, msg |-> "file not found"]
    [] check = "expiry"   -> [code |-> 410, msg |-> "file expired"]
    [] check = "match"    -> [code |-> 409, msg |-> "upload-Offset header does not match the current offset"]

\* the decision is the answer of the first check of the order that the
\* request violates, and to go on when it violates none
DecidedInOrder(order, i, rq) ==
  LET bad == {k \in DOMAIN order : Violates(order[k], i, rq)}
  IN  IF bad = {} THEN PatchChecks(i, rq).code = 0
      ELSE PatchChecks(i, rq) =
             AnswerOf(order[CHOOSE k \in bad : \A j \in bad : k <= j], rq)

\* C11 as claimed: PATCH answers with the first violated check of the order
\* Upload-Offset, Content-Type, Upload-Checksum, lookup, expiry, offset match
C11_ChecksInClaimedOrder ==
  \A i \in Ids, rq \in PatchRequests :
    DecidedInOrder(<<"offset", "type", "checksum", "lookup", "expiry", "match">>, i, rq)

\* C11 as amended: PATCH answers with the first violated check of the order
\* Upload-Checksum (when the extension is enabled), Upload-Offset,
\* Content-Type, lookup, expiry, offset match
C11_ChecksInHandlerOrder ==
  \A i \in Ids, rq \in PatchRequests :
    DecidedInOrder(<<"checksum", "offset", "type", "lookup", "expiry", "match">>, i, rq)

\* C11 witness: a PATCH was answered for its checksum, and a request without
\* Upload-Offset and with a malformed Upload-Checksum is decided that way
C11_Witness ==
  /\ resp.method = "PATCH" /\ resp.status = 400
  /\ resp.body = JsonBody("invalid checksum format")
  /\ \E rq \in PatchRequests :
       /\ Violates("offset", 1, rq) /\ Violates("checksum", 1, rq)
       /\ PatchChecks(1, rq) = Reject(400, "invalid checksum format")

\* ---------------------------------------------------------------- C12
\* the header value is a minus sign and digits
IsNegativeNumber(h) ==
  Len(h) >= 2 /\ h[1] = "-" /\ \A k \in 2..Len(h) : IsDigit(h[k])

\* C12: a PATCH that gets to the Upload-Offset check with the header missing
\* or not a number is answered 400 "invalid Upload-Offset header: not a
\* number", and with a negative number 400 "invalid Upload-Offset header:
\* negative value"
C12_BadOffsetAnswers ==
  \A i \in Ids, rq \in PatchRequests :
    (~Violates("checksum", i, rq) /\ ~ParseUint(rq.uploadOffset).ok)
      => PatchChecks(i, rq) =
           Reject(400, IF IsNegativeNumber(rq.uploadOffset)
                       THEN "invalid Upload-Offset header: negative value"
                       ELSE "invalid Upload-Offset header: not a number")

\* ---------------------------------------------------------------- C13
\* the bodies of the answers of the checks that come before the offset match
PreconditionBodies ==
  {JsonBody(AnswerOf(check, [uploadChecksum |-> h]).msg) :
     check \in {"offset", "type", "checksum", "lookup", "expiry"},
     h \in {<<"md5">>, <<"crc32", HexDigest(<<>>)>>}}

\* C13: a PATCH that violates a header check, names an unknown id or an
\* expired record is rejected with 400, 415, 404 or 410, and the step that
\* sends such a rejection leaves the store, every blob and every upload in
\* progress as they were
C13_RejectionHasNoSideEffect ==
  /\ [](\A i \in Ids, rq \in PatchRequests :
          (\E check \in {"offset", "type", "checksum", "lookup", "expiry"} :
              Violates(check, i, rq))
          => PatchChecks(i, rq).code \in {400, 415, 404, 410})
  /\ [][(resp' # resp /\ resp'.method = "PATCH" /\ resp'.body \in PreconditionBodies)
          => /\ resp'.status \in {400, 415, 404, 410}
             /\ store' = store /\ blob' = blob /\ patch' = patch]_vars

\* C13 witness: a 415 was sent while the record holds bytes and another PATCH
\* is in its copy
C13_Witness ==
  /\ resp.method = "PATCH" /\ resp.status = 415
  /\ \E i \in DOMAIN store :
       /\ store[i].UploadedSize > 0 /\ BlobLen(store[i].Path) > 0
       /\ \E w \in Workers : PatchOn(w, i) /\ patch[w].pc = "copy"

\* ---------------------------------------------------------------- C14
\* C14: a PATCH that passes the header checks and names an id the store does
\* not hold is answered 404 with the body {"message":"file not found"}, and
\* a HEAD for such an id is answered 404 without Upload-Offset
C14_UnknownIdIs404 ==
  /\ [](\A i \in RequestIds \ DOMAIN store, rq \in PatchRequests :
          (~Violates("checksum", i, rq) /\ ~Violates("offset", i, rq)
             /\ ~Violates("type", i, rq))
          => PatchChecks(i, rq) = Reject(404, "file not found"))
  /\ [][(resp' # resp /\ resp'.method = "PATCH" /\ resp'.status = 404)
          => /\ resp'.body = <<"json", "file not found">>
             /\ resp'.id \notin DOMAIN store]_vars
  /\ [][\A i \in RequestIds \ DOMAIN store :
          GetOffset(i) => resp'.status = 404 /\ resp'.offset = NoHeader]_vars

\* C14 witness: a PATCH for an id that is not in the store was answered 404
\* while the store holds a record with bytes
C14_Witness ==
  /\ resp.method = "PATCH" /\ resp.status = 404
  /\ resp.id \in RequestIds \ DOMAIN store
  /\ \E i \in DOMAIN store : store[i].UploadedSize > 0

\* ---------------------------------------------------------------- C15
\* C15: with the expiration extension enabled, a PATCH that passes the header
\* checks on a record with expires_at < now is answered 410 with the body
\* {"message":"file expired"}, also when its Upload-Offset is the record's
\* uploaded_size; the 410 carries neither Upload-Offset nor Upload-Expires
\* and its step changes neither the store nor a blob
C15_ExpiredPatchIs410 ==
  /\ [](\A i \in DOMAIN store, rq \in PatchRequests :
          (/\ Enabled(extensions, ExpirationExtension)
           /\ store[i].ExpiresAt < now
           /\ ~Violates("checksum", i, rq) /\ ~Violates("offset", i, rq)
           /\ ~Violates("type", i, rq))
          => PatchChecks(i, rq) = Reject(410, "file expired"))
  /\ [][(resp' # resp /\ resp'.method = "PATCH" /\ resp'.status = 410)
          => /\ resp'.body = <<"json", "file expired">>
             /\ resp'.offset = NoHeader /\ resp'.expires = NoHeader
             /\ store' = store /\ blob' = blob /\ patch' = patch]_vars

\* C15 witness: a 410 was sent for a record that holds bytes, and a PATCH at
\* the record's uploaded_size is decided 410
C15_Witness ==
  /\ resp.method = "PATCH" /\ resp.status = 410
  /\ resp.id \in DOMAIN store
  /\ store[resp.id].UploadedSize > 0
  /\ PatchChecks(resp.id, [uploadOffset |-> FormatUint(store[resp.id].UploadedSize),
                           contentType |-> OffsetOctetStream,
                           uploadChecksum |-> <<>>, body |-> <<>>]).code = 410

\* ---------------------------------------------------------------- C16
\* C16: a HEAD on a record whose expires_at is set carries Upload-Expires
\* with that instant; it is answered 410 when expires_at is earlier than now
\* and 204 when it is later
C16_HeadCarriesUploadExpires ==
  [][\A i \in DOMAIN store :
       (GetOffset(i) /\ store[i].ExpiresAt # ZeroTime)
       => /\ resp'.expires = <<"GMT", store[i].ExpiresAt>>
          /\ store[i].ExpiresAt < now => resp'.status = 410
          /\ store[i].ExpiresAt > now => resp'.status = 204]_vars

\* C16 witness: a HEAD on an expired record was answered 410 with its
\* Upload-Expires
C16_Witness ==
  /\ resp.method = "HEAD" /\ resp.status = 410
  /\ resp.id \in DOMAIN store
  /\ store[resp.id].ExpiresAt < now
  /\ resp.expires = <<"GMT", store[resp.id].ExpiresAt>>

\* ---------------------------------------------------------------- C17
\* C17: a HEAD on a record that is not expired is answered 204 with
\* Upload-Offset the decimal of the uploaded_size the store holds at that
\* moment, Upload-Length that of total_size, and Cache-Control: no-store
C17_HeadReportsRecord ==
  [][\A i \in DOMAIN store :
       (GetOffset(i) /\ ~(store[i].ExpiresAt < now))
       => /\ resp'.status = 204
          /\ ParseUint(resp'.offset) = [ok |-> TRUE, v |-> store[i].UploadedSize]
          /\ ParseUint(resp'.length) = [ok |-> TRUE, v |-> store[i].TotalSize]
          /\ resp'.cacheControl = "no-store"]_vars

\* C17 witness: a HEAD reported the uploaded_size two PATCHes had committed
C17_Witness ==
  /\ resp.method = "HEAD" /\ resp.status = 204
  /\ resp.id \in DOMAIN store
  /\ accepted = MaxPatches
  /\ store[resp.id].UploadedSize = MaxBlob
  /\ ParseUint(resp.offset).v = store[resp.id].UploadedSize

\* ---------------------------------------------------------------- C18
\* C18: the Upload-Metadata of a successful POST comes back in the
\* Upload-Metadata header of every later HEAD on that id when it is not
\* empty; so a HEAD on a record that took its file name from the POST's
\* Upload-Metadata carries an Upload-Metadata header
C18_MetadataRoundTrip ==
  [][\A i \in DOMAIN store :
       (GetOffset(i) /\ store[i].Name # "") => resp'.metadata # NoHeader]_vars

\* ---------------------------------------------------------------- C19
\* what C19 compares of the answer of a HEAD on id i
HeadReport(i) ==
  LET r == HeadAnswer(i)
  IN  [status |-> r.status, offset |-> r.offset, length |-> r.length,
       metadata |-> r.metadata]

\* the step saves nothing under id i: no PATCH commits on it
Kept(i) == i \in DOMAIN store' /\ store'[i] = store[i]

\* C19 as claimed: a HEAD changes neither the store nor a blob, and a HEAD
\* that follows a HEAD on the same id with no PATCH committed in between
\* returns the same status, Upload-Offset, Upload-Length and Upload-Metadata:
\* no step that commits nothing on a record changes what a HEAD on it returns
C19_HeadIdempotent ==
  /\ [][\A i \in RequestIds :
          GetOffset(i) => store' = store /\ blob' = blob /\ patch' = patch]_vars
  /\ [][\A i \in DOMAIN store : Kept(i) => HeadReport(i)' = HeadReport(i)]_vars

\* C19 as amended: the same, but the status may go from 204 to 410 when the
\* record's expires_at has passed between the two HEADs
C19_HeadIdempotentUntilExpiry ==
  /\ [][\A i \in RequestIds :
          GetOffset(i) => store' = store /\ blob' = blob /\ patch' = patch]_vars
  /\ [][\A i \in DOMAIN store :
          Kept(i)
            => \/ HeadReport(i)' = HeadReport(i)
               \/ /\ HeadReport(i).status = 204
                  /\ Before(store[i].ExpiresAt, now')
                  /\ HeadReport(i)' = [HeadReport(i) EXCEPT !.status = 410]]_vars

\* C19 witness: a HEAD on a record with bytes, expired since its PATCH
\* committed them, was answered 410 with the offset and the length a HEAD
\* before the expiry returns
C19_Witness ==
  /\ resp.method = "HEAD" /\ resp.status = 410
  /\ resp.id \in DOMAIN store
  /\ store[resp.id].UploadedSize > 0
  /\ ParseUint(resp.offset).v = store[resp.id].UploadedSize
  /\ ParseUint(resp.length).v = store[resp.id].TotalSize
  /\ resp = HeadAnswer(resp.id)

\* ---------------------------------------------------------------- C20
\* Tus-Resumable values to decide: missing, the two supported versions, a
\* later version and a shortened one
TusResumableProbes == {"", "0.2.0", "1.0.0", "2.0.0", "1.0"}

\* the two bodies the version check answers with
VersionCheckBodies ==
  {TextBody("Tus-Resumable header is missing"), TextBody("Tus version not supported")}

\* C20: for a request that is not OPTIONS the version check answers 400 when
\* Tus-Resumable is missing and 412 when it is neither 0.2.0 nor 1.0.0, and
\* calls the handler when it is one of the two; it calls the handler of every
\* OPTIONS request. A 400 or 412 of the check carries no Upload-Offset and no
\* Upload-Length and its step changes neither the store nor a blob nor an
\* upload in progress; with a supported version the step is the handler's
C20_VersionCheck ==
  /\ [](\A v \in TusResumableProbes :
          /\ TusResumableVerdict("OPTIONS", v) = 0
          /\ \A m \in {"POST", "HEAD", "PATCH"} :
               TusResumableVerdict(m, v) =
                 IF v = "" THEN 400
                 ELSE IF v \in {"0.2.0", "1.0.0"} THEN 0 ELSE 412)
  /\ [][(resp' # resp /\ resp'.body \in VersionCheckBodies)
          => /\ resp'.method # "OPTIONS"
             /\ resp'.status =
                  (IF resp'.body = TextBody("Tus-Resumable header is missing")
                   THEN 400 ELSE 412)
             /\ resp'.offset = NoHeader /\ resp'.length = NoHeader
             /\ store' = store /\ blob' = blob /\ patch' = patch]_vars
  /\ [][(resp' # resp /\ resp'.method = "OPTIONS")
          => \A v \in TusResumableProbes : (ServeOptions(v) <=> GetConfig)]_vars
  /\ [][(resp' # resp /\ resp'.method = "HEAD")
          => \A v \in TusResumableProbes :
               IF v \in {"0.2.0", "1.0.0"}
               THEN ServeHead(v) <=> (\E i \in RequestIds : GetOffset(i))
               ELSE ServeHead(v) => /\ resp'.status \in {400, 412}
                                    /\ resp'.body \in VersionCheckBodies]_vars

\* C20 witness: a PATCH with an unsupported version was answered 412 while
\* an upload is in its copy on a record
C20_Witness ==
  /\ resp.method = "PATCH" /\ resp.status = 412
  /\ resp.body = TextBody("Tus version not supported")
  /\ \E w \in Workers : patch[w].pc = "copy" /\ patch[w].n > 0

\* ---------------------------------------------------------------- C21
\* C21: behind the two filters as the server installs them, every response
\* to a POST, HEAD or PATCH carries Tus-Resumable: 1.0.0, the 400 and the
\* 412 of the version filter included, and no response to OPTIONS carries it
C21_EveryResponseStamped ==
  /\ resp.method \in {"POST", "HEAD", "PATCH"} => resp.tusResumable = <<"1.0.0">>
  /\ resp.method = "OPTIONS" => resp.tusResumable = NoHeader

\* ---------------------------------------------------------------- C22
\* the extension lists and the size limits a controller is probed with: no
\* extension, the defaults, one extension, and lists with and without the
\* checksum extension in another order; no limit and limits of one to three
\* digits
ExtensionProbes ==
  {<<>>, defaultSupportedExtensions, <<ChecksumExtension>>,
   <<ExpirationExtension, CreationExtension>>,
   <<ChecksumExtension, CreationExtension>>}

MaxSizeProbes == {0, 1, 10, 255}

\* a header value is the list with a comma between its elements
IsCommaJoined(h, list) ==
  /\ Len(list) > 0
  /\ Len(h) = 2 * Len(list) - 1
  /\ \A k \in DOMAIN h :
       h[k] = IF k % 2 = 1 THEN list[(k + 1) \div 2] ELSE ","

\* C22: OPTIONS /files answers 204 with Tus-Version 0.2.0,1.0.0; it carries
\* Tus-Extension exactly when the extension list is not empty, and then the
\* list joined by commas in its order; Tus-Max-Size exactly when maxSize is
\* not zero, and then its decimal value; Tus-Checksum-Algorithm exactly when
\* the checksum extension is enabled. Every answer to an OPTIONS request is
\* the one of the controller's own extensions and maxSize
C22_ConfigHeaders ==
  /\ [](\A e \in ExtensionProbes, m \in MaxSizeProbes :
          LET r == ConfigHeaders(e, m)
          IN  /\ r.status = 204
              /\ r.tusVersion = <<"0.2.0", ",", "1.0.0">>
              /\ (r.tusExtension # NoHeader) <=> (Len(e) > 0)
              /\ Len(e) > 0 => IsCommaJoined(r.tusExtension, e)
              /\ (r.tusMaxSize # NoHeader) <=> (m # 0)
              /\ m # 0 => ParseUint(r.tusMaxSize) = [ok |-> TRUE, v |-> m]
              /\ (r.tusChecksumAlgorithm # NoHeader)
                   <=> (\E k \in DOMAIN e : e[k] = "checksum"))
  /\ [][(resp' # resp /\ resp'.method = "OPTIONS")
          => /\ resp' = ConfigHeaders(extensions, maxSize)
             /\ resp'.status = 204
             /\ resp'.tusVersion = <<"0.2.0", ",", "1.0.0">>
             /\ (resp'.tusExtension # NoHeader) <=> (Len(extensions) > 0)
             /\ (resp'.tusMaxSize # NoHeader) <=> (maxSize # 0)
             /\ store' = store /\ blob' = blob /\ patch' = patch]_vars

\* C22 witness: an OPTIONS request was answered by the controller with the
\* default extensions while the store holds a record
C22_Witness ==
  /\ resp.method = "OPTIONS" /\ resp.status = 204
  /\ resp.tusExtension = <<"creation", ",", "expiration", ",", "checksum">>
  /\ resp.tusMaxSize = NoHeader
  /\ resp.tusChecksumAlgorithm = <<"sha1", ",", "md5">>
  /\ DOMAIN store # {}

\* ---------------------------------------------------------------- C23
\* C23: with maxSize > 0, a POST whose Upload-Length exceeds maxSize is
\* answered 413 and the handler stops there: the step saves no record and
\* the response has no Location
C23_TooLargeIsNotSaved ==
  [][\A rq \in PostRequests :
       (/\ maxSize > 0
        /\ rq.uploadDeferLength = <<>>
        /\ ParseUint(rq.totalLength).ok
        /\ ParseUint(rq.totalLength).v > maxSize
        /\ CreateUpload(rq.uploadDeferLength, rq.totalLength, rq.uploadMetadata))
         => /\ resp'.status = 413
            /\ resp'.location = NoHeader
            /\ store' = store]_vars

\* ---------------------------------------------------------------- C24
\* Upload-Defer-Length and Upload-Length values to decide: missing, "1",
\* other values; missing, signed, not a number, a fraction, and numbers
UploadDeferLengthProbes ==
  {<<>>, <<"1">>, <<"2">>, <<"0">>, <<"1", "1">>, <<"t", "r", "u", "e">>}

UploadLengthProbes ==
  {<<>>, <<"-", "1">>, <<"a">>, <<"1", ".", "5">>, <<"0">>, <<"2">>, <<"1", "0">>}

\* the header is a non-negative integer in decimal digits
IsNonNegativeInteger(h) ==
  /\ Len(h) > 0
  /\ \A k \in DOMAIN h : h[k] \in {"0", "1", "2", "3", "4", "5", "6", "7", "8", "9"}

\* C24: a POST with Upload-Defer-Length present and other than "1" is
\* answered 400, with Upload-Defer-Length "1" 501, and with Upload-Length
\* missing or not a non-negative integer 400; the step that answers so saves
\* no record and leaves the store as it was
C24_RejectedPostSavesNothing ==
  /\ [](\A udl \in UploadDeferLengthProbes, ul \in UploadLengthProbes :
          LET d == PostChecks(udl, ul)
          IN  /\ (udl # <<>> /\ udl # <<"1">>) => d.code = 400
              /\ udl = <<"1">> => d.code = 501
              /\ (udl = <<>> /\ ~IsNonNegativeInteger(ul)) => d.code = 400
              /\ (udl = <<>> /\ IsNonNegativeInteger(ul)) => d.code = 0)
  /\ [][(resp' # resp /\ resp'.method = "POST" /\ resp'.status \in {400, 501})
          => /\ store' = store /\ blob' = blob
             /\ resp'.location = NoHeader
             /\ resp'.body \notin VersionCheckBodies
                  => \E rq \in PostRequests :
                       /\ PostChecks(rq.uploadDeferLength, rq.totalLength).code
                            = resp'.status
                       /\ CreateUpload(rq.uploadDeferLength, rq.totalLength,
                                       rq.uploadMetadata)]_vars

\* C24 witness: a POST with Upload-Defer-Length: 1 was answered 501 while the
\* store holds no record
C24_Witness ==
  /\ resp.method = "POST" /\ resp.status = 501
  /\ resp.body = TextBody("Upload-Defer-Length is not implemented")
  /\ DOMAIN store = {}
  /\ now > 1

\* ---------------------------------------------------------------- C25
\* C25: a POST answered 201 for Upload-Length L saves exactly one new record,
\* with uploaded_size 0 and total_size L, and its Location is /files/<id> of
\* that record; a HEAD on the id before any PATCH was accepted returns
\* Upload-Offset 0 and Upload-Length L
C25_CreatedRecord ==
  /\ [][(resp' # resp /\ resp'.method = "POST" /\ resp'.status = 201)
          => /\ resp'.id \notin DOMAIN store
             /\ DOMAIN store' = DOMAIN store \cup {resp'.id}
             /\ \A i \in DOMAIN store : store'[i] = store[i]
             /\ store'[resp'.id].ID = resp'.id
             /\ store'[resp'.id].UploadedSize = 0
             /\ resp'.location = <<"/files/", resp'.id>>
             /\ \E rq \in PostRequests :
                  /\ CreateUpload(rq.uploadDeferLength, rq.totalLength, rq.uploadMetadata)
                  /\ IsNonNegativeInteger(rq.totalLength)
                  /\ FormatUint(store'[resp'.id].TotalSize) = rq.totalLength]_vars
  /\ [][\A i \in DOMAIN store :
          (accepted = 0 /\ resp' # resp /\ resp'.method = "HEAD" /\ GetOffset(i))
            => /\ resp'.offset = <<"0">>
               /\ resp'.length = FormatUint(store[i].TotalSize)]_vars

\* C25 witness: a HEAD on a record of two bytes, before any PATCH was
\* accepted, was answered 204 with Upload-Offset 0 and Upload-Length 2
C25_Witness ==
  /\ accepted = 0
  /\ resp.method = "HEAD" /\ resp.status = 204
  /\ resp.id \in DOMAIN store
  /\ resp.offset = <<"0">> /\ resp.length = <<"2">>
  /\ store[resp.id].TotalSize = 2

\* ---------------------------------------------------------------- C26
\* C26: a record is in the store exactly when a POST for its id was answered
\* 201: a step adds a record only if it is a POST answered 201 for that id,
\* such a POST adds it, no record is ever removed, and a PATCH saves under
\* the key it looked up
C26_RecordsAreCreatedByPost ==
  /\ [][/\ DOMAIN store \subseteq DOMAIN store'
        /\ \A i \in DOMAIN store' \ DOMAIN store :
             resp'.method = "POST" /\ resp'.status = 201 /\ resp'.id = i]_vars
  /\ [][(resp' # resp /\ resp'.method = "POST" /\ resp'.status = 201)
          => resp'.id \in DOMAIN store' \ DOMAIN store]_vars
  /\ [][\A w \in Workers :
          (Returns(w) /\ store' # store)
            => /\ patch[w].id \in DOMAIN store
               /\ DOMAIN store' = DOMAIN store
               /\ \A i \in DOMAIN store \ {patch[w].id} : store'[i] = store[i]]_vars

\* ---------------------------------------------------------------- C27
\* C27: a PATCH, whether it succeeds or fails after some bytes, changes of
\* its record the uploaded_size alone: the id, the total_size, the metadata
\* (name, content type, checksum), expires_at and the blob path of every
\* record stay, step after step, what they were when the record was created,
\* and a step that changes a stored record is the return of a PATCH on it
C27_PatchChangesUploadedSizeOnly ==
  /\ [][\A i \in DOMAIN store :
          /\ i \in DOMAIN store'
          /\ [store'[i] EXCEPT !.UploadedSize = store[i].UploadedSize] = store[i]]_vars
  /\ [][\A i \in DOMAIN store :
          store'[i] # store[i]
            => \E w \in Workers : Returns(w) /\ patch[w].id = i]_vars

\* C27 witness: a PATCH on a record created with metadata failed after one
\* byte, and the record holds that byte count and its metadata
C27_Witness ==
  /\ resp.method = "PATCH" /\ resp.status \in {408, 500} /\ resp.written = 1
  /\ resp.id \in DOMAIN store
  /\ store[resp.id].UploadedSize = 1
  /\ store[resp.id].TotalSize = 2
  /\ store[resp.id].Name = "a.txt"
  /\ store[resp.id].ContentType = "text/plain"

\* ---------------------------------------------------------------- C28
\* the PATCH of no byte at the end of an upload of this size, without a
\* checksum
ZeroPatchAt(total) ==
  [uploadOffset |-> FormatUint(total), contentType |-> OffsetOctetStream,
   uploadChecksum |-> <<>>, body |-> <<>>]

\* the PATCH worker w runs is one of no byte on a record it found complete
RunsZeroPatchOnComplete(w) ==
  /\ patch[w].pc = "copy"
  /\ patch[w].body = <<>> /\ patch[w].checksum = NoChecksum
  /\ patch[w].fm.UploadedSize = patch[w].fm.TotalSize

\* C28: a PATCH with Upload-Offset total_size and no byte on a complete
\* record passes the checks as long as the record has not expired (it is
\* answered 410 once it has); when its copy returns it is answered 204 with
\* Upload-Offset total_size, and its steps leave uploaded_size and the length
\* of the blob as they are, any number of times
C28_ZeroPatchOnCompleteIsNoOp ==
  /\ [](\A i \in DOMAIN store :
          store[i].UploadedSize = store[i].TotalSize
            => PatchChecks(i, ZeroPatchAt(store[i].TotalSize))
                 = IF Enabled(extensions, ExpirationExtension) /\ store[i].ExpiresAt < now
                   THEN [code |-> 410, msg |-> "file expired"]
                   ELSE GoOn)
  /\ [][\A w \in Workers :
          /\ (RunsZeroPatchOnComplete(w) /\ PatchFinish(w))
               => /\ resp'.status = 204
                  /\ resp'.offset = FormatUint(patch[w].fm.TotalSize)
                  /\ store' = store /\ blob' = blob
          /\ (patch[w].pc = "open" /\ patch[w].body = <<>> /\ patch'[w].pc = "copy")
               => /\ store' = store
                  /\ BlobLen(patch[w].fm.Path)' = BlobLen(patch[w].fm.Path)]_vars

\* ---------------------------------------------------------------- C29
\* C29: a POST with Upload-Length 0 passes the header checks and is answered
\* 201, whatever maxSize is; the record it saves has uploaded_size =
\* total_size = 0, and is complete with no PATCH
C29_ZeroLengthIsComplete ==
  /\ [](PostChecks(<<>>, <<"0">>).code = 0)
  /\ [][\A rq \in PostRequests :
          (/\ resp'.method = "POST" /\ store' # store
           /\ rq.uploadDeferLength = <<>> /\ rq.totalLength = <<"0">>
           /\ CreateUpload(rq.uploadDeferLength, rq.totalLength, rq.uploadMetadata))
            => /\ resp'.status = 201
               /\ resp'.location = <<"/files/", resp'.id>>
               /\ store'[resp'.id].TotalSize = 0
               /\ store'[resp'.id].UploadedSize = store'[resp'.id].TotalSize]_vars
  /\ [][\A rq \in PostRequests :
          (/\ resp'.method = "POST" /\ resp' # resp
           /\ rq.uploadDeferLength = <<>> /\ rq.totalLength = <<"0">>
           /\ CreateUpload(rq.uploadDeferLength, rq.totalLength, rq.uploadMetadata))
            => store' # store]_vars

\* C29 witness: a controller with a size limit answered 201 to a POST with
\* Upload-Length 0, and the record is complete before any PATCH
C29_Witness ==
  /\ maxSize > 0 /\ accepted = 0
  /\ resp.method = "POST" /\ resp.status = 201
  /\ resp.id \in DOMAIN store
  /\ store[resp.id].TotalSize = 0 /\ store[resp.id].UploadedSize = 0

\* ---------------------------------------------------------------- C30
\* The handler never reads r.Context(): the goroutine that waits on it only
\* logs. A cancellation (the client is gone, the read deadline has passed)
\* reaches the handler as the error the read of the body returns to io.Copy,
\* the step PatchFail; between the return of io.Copy and Store.Save the
\* handler waits on nothing, so the two are one step.

\* the copy of worker w has returned without an error and, if the verifier
\* runs, the digest matches
CopyReturnedGood(w) ==
  /\ patch[w].pc = "copy" /\ patch[w].n = Len(patch[w].body)
  /\ VerifierRuns(w) => HexDigest(patch[w].body) = patch[w].checksum.Value

C33_ErrorBodiesAreJson ==
  (resp.status \notin 200..299 /\ resp.body # NoBody)
    => \E msg \in {resp.body[2]} : resp.body = JsonBody(msg)

\* ---------------------------------------------------------------- C34
\* the response concerns a record and carries its expiry: a 201 of POST, a
\* 204 of PATCH, a 204 or 410 of HEAD
CarriesExpiry(r) ==
  \/ r.method = "POST" /\ r.status = 201
  \/ r.method = "PATCH" /\ r.status = 204
  \/ r.method = "HEAD" /\ r.status \in {204, 410}

\* C34: a successful POST sets expires_at to the creation time plus
\* UploadMaxDuration and returns it in Upload-Expires; no later step changes
\* the record's expires_at, and every successful PATCH response and every
\* HEAD response for the id carries Upload-Expires with that same instant
C34_SameExpiryEverywhere ==
  /\ [](CarriesExpiry(resp) =>
          /\ resp.id \in DOMAIN store
          /\ resp.expires = uploadExpiresAt(store[resp.id].ExpiresAt))
  /\ [][(resp' # resp /\ resp'.method = "POST" /\ resp'.status = 201) =>
          /\ resp'.id \notin DOMAIN store
          /\ store'[resp'.id].ExpiresAt = now + UploadMaxDuration
          /\ resp'.expires = uploadExpiresAt(now + UploadMaxDuration)]_vars
  /\ [][\A i \in DOMAIN store :
          i \in DOMAIN store' /\ store'[i].ExpiresAt = store[i].ExpiresAt]_vars

\* with the expiration extension enabled, a PATCH that wrote bytes was
\* answered 204 after the clock moved past the creation time
C34_Witness ==
  /\ Enabled(extensions, ExpirationExtension)
  /\ resp.method = "PATCH" /\ resp.status = 204 /\ resp.written > 0
  /\ resp.id \in DOMAIN store
  /\ now > 1
  /\ resp.expires = uploadExpiresAt(1 + UploadMaxDuration)

\* ---------------------------------------------------------------- C35
\* C35: in every state, also in the middle of a PATCH, no record's
\* uploaded_size exceeds the length of its blob; a HEAD reports the
\* uploaded_size the store holds, and the store's records change only in the
\* step in which a PATCH handler returns after its copy, so that a HEAD sees
\* the value before a PATCH or the value it commits, never one in between
C35_RecordAdvancesAfterAppend ==
  /\ [](\A i \in DOMAIN store : store[i].UploadedSize <= BlobLen(store[i].Path))
  /\ [][(resp' # resp /\ resp'.method = "HEAD" /\ resp'.status \in {204, 410}) =>
          resp'.offset = FormatUint(store[resp'.id].UploadedSize)]_vars
  /\ [][(\A w \in Workers : ~Returns(w)) =>
          \A i \in DOMAIN store : store'[i] = store[i]]_vars

\* ---------------------------------------------------------------- C37
\* the record under id i has expired
Expired(i) == i \in DOMAIN store /\ Before(store[i].ExpiresAt, now)

\* the PATCH requests that pass the header checks on id i: those the checks
\* answer neither 400 nor 415
PassesHeaderChecks(i, rq) == PatchChecks(i, rq).code \notin {400, 415}

\* C37: expired is terminal. A record that has expired stays in the store
\* with the same expires_at and is expired in every later state; every HEAD
\* on it is answered 410; with the expiration extension enabled every PATCH
\* on it that passes the header checks is answered 410 and none is accepted
C37_ExpiredIsTerminal ==
  /\ [][\A i \in DOMAIN store :
          Expired(i) => /\ i \in DOMAIN store'
                        /\ store'[i].ExpiresAt = store[i].ExpiresAt
                        /\ Before(store'[i].ExpiresAt, now')]_vars
  /\ [][(resp' # resp /\ resp'.method = "HEAD" /\ Expired(resp'.id)) =>
          resp'.status = 410]_vars
  /\ [](Enabled(extensions, ExpirationExtension) =>
          \A i \in DOMAIN store, rq \in PatchRequests :
            (Expired(i) /\ PassesHeaderChecks(i, rq)) =>
               PatchChecks(i, rq) = Reject(410, "file expired"))
  /\ [][(resp' # resp /\ resp'.method = "PATCH" /\ Expired(resp'.id)
           /\ Enabled(extensions, ExpirationExtension)
           /\ patch' = patch) =>
          resp'.status \in {400, 415, 410}]_vars
  /\ [][\A w \in Workers :
          (patch[w].pc = "idle" /\ patch'[w].pc = "open"
             /\ Enabled(extensions, ExpirationExtension)) =>
          ~Expired(patch'[w].id)]_vars

\* with the expiration extension enabled, a PATCH at the record's offset was
\* answered 410 on a record that holds bytes and has expired
C37_Witness ==
  /\ Enabled(extensions, ExpirationExtension)
  /\ resp.method = "PATCH" /\ resp.status = 410
  /\ Expired(resp.id)
  /\ store[resp.id].UploadedSize > 0

\* ---------------------------------------------------------------- C38
\* C38: HEAD and PATCH agree on expiry for every controller: in no state
\* would a HEAD on a record be answered 410 while a PATCH at the record's
\* offset passes the checks of ResumeUpload on the same record
C38_HeadAndPatchAgreeOnExpiry ==
  \A i \in DOMAIN store :
    (~IsZero(store[i].ExpiresAt) /\ Before(store[i].ExpiresAt, now)) =>
      \A rq \in GoodPatches :
        rq.uploadOffset = FormatUint(store[i].UploadedSize) =>
          PatchChecks(i, rq) # GoOn

\* ---------------------------------------------------------------- C39
\* the bytes of the blob under path from position from + 1 to position to
BlobRange(b, path, from, to) ==
  IF path \in DOMAIN b THEN SubSeq(b[path], from + 1, to) ELSE <<>>

\* C39: the first uploaded_size bytes of a blob are the committed ranges in
\* commit order. Every byte a PATCH accepted at offset o writes lands at
\* position o plus the bytes it wrote before; the bytes below uploaded_size
\* never change; and the PATCH that commits n bytes moves uploaded_size by n
\* over exactly the first n bytes of its body
C39_BlobHoldsCommittedRanges ==
  /\ [][\A w \in Workers :
          (patch[w].pc = "copy" /\ patch'[w].pc = "copy" /\ patch'[w].n = patch[w].n + 1) =>
            LET r == patch[w]
            IN  /\ Len(blob'[r.fm.Path]) = r.fm.UploadedSize + r.n + 1
                /\ blob'[r.fm.Path][r.fm.UploadedSize + r.n + 1] = r.body[r.n + 1]]_vars
  /\ [][\A i \in DOMAIN store :
          /\ BlobLen(store[i].Path) >= store[i].UploadedSize
          /\ BlobRange(blob', store[i].Path, 0, store[i].UploadedSize)
               = BlobRange(blob, store[i].Path, 0, store[i].UploadedSize)]_vars
  /\ [][\A w \in Workers :
          (Returns(w) /\ store' # store) =>
            LET r == patch[w]
            IN  /\ store'[r.id].UploadedSize = store[r.id].UploadedSize + r.n
                /\ BlobRange(blob', r.fm.Path, store[r.id].UploadedSize,
                             store'[r.id].UploadedSize)
                     = SubSeq(r.body, 1, r.n)]_vars

\* ---------------------------------------------------------------- C32
\* the step saves f under id: the store holds f, whole, under id and is
\* otherwise as it was
Saved(id, f) ==
  /\ DOMAIN store' = DOMAIN store \cup {id}
  /\ store'[id] = f
  /\ \A j \in DOMAIN store \ {id} : store'[j] = store[j]

\* C32: the store linearizes find and save. A POST answered 201 has its
\* record found in every later state; the handler that saves leaves the store
\* holding the whole record it passed, and the store changes in no other way;
\* a PATCH that is accepted holds the record the store held at its lookup, a
\* HEAD reports it, and the snapshot of a PATCH in flight is not altered by
\* later saves
C32_StoreLinearizesFindAndSave ==
  /\ []((resp.method = "POST" /\ resp.status = 201) =>
          Find(resp.id).ok /\ Find(resp.id).fm.ID = resp.id)
  /\ [][\A w \in Workers :
          (Returns(w) /\ resp'.status \in {204, 408}) =>
            Saved(patch[w].id, Advanced(patch[w].fm, patch[w].n))]_vars
  /\ [][store' # store =>
          \/ \E w \in Workers :
               Returns(w) /\ Saved(patch[w].id, Advanced(patch[w].fm, patch[w].n))
          \/ /\ resp'.method = "POST"
             /\ \E rq \in GoodPosts :
                  Saved(resp'.id, NewFile(resp'.id, ParseUint(rq.totalLength).v,
                                          rq.uploadMetadata, now + UploadMaxDuration))]_vars
  /\ [][\A w \in Workers :
          (patch[w].pc = "idle" /\ patch'[w].pc = "open") =>
            patch'[w].fm = Find(patch'[w].id).fm]_vars
  /\ [][(resp' # resp /\ resp'.method = "HEAD" /\ resp'.status = 204) =>
          /\ Find(resp'.id).ok
          /\ resp'.offset = FormatUint(Find(resp'.id).fm.UploadedSize)
          /\ resp'.length = FormatUint(Find(resp'.id).fm.TotalSize)]_vars
  /\ [][\A w \in Workers :
          (patch[w].pc # "idle" /\ patch'[w].pc # "idle") =>
            patch'[w].fm = patch[w].fm]_vars

\* a PATCH in flight holds a snapshot that differs from the record the store
\* holds now: another PATCH saved after the lookup
C32_Witness ==
  \E w \in Workers :
    /\ InFlight(w)
    /\ Find(patch[w].id).ok
    /\ patch[w].fm # Find(patch[w].id).fm

\* ---------------------------------------------------------------- C31
\* a server that holds up to MaxPair uploads: the PATCHes on one id do not
\* overlap, those on different ids interleave freely
MaxPair == 2
PairIds == 1..MaxPair

PairPost ==
  TusResumableHeaderCheck("POST", TusVersion,
    \E rq \in GoodPosts :
       CreateUploadIn(PairIds, rq.uploadDeferLength, rq.totalLength, rq.uploadMetadata))

PairPatch ==
  TusResumableHeaderCheck("PATCH", TusVersion,
    \E w \in Workers, i \in PairIds, rq \in GoodPatches :
       Alone(w, i) /\ PatchBegin(w, i, rq))

PairNext ==
  \/ PairPost /\ UNCHANGED watchers
  \/ PairPatch /\ UNCHANGED watchers
  \/ \E w \in Workers, o \in {"ok", "open failed", "seek failed"} : PatchOpen(w, o) /\ UNCHANGED watchers
  \/ \E w \in Workers : PatchWrite(w) /\ UNCHANGED watchers
  \/ \E w \in Workers : PatchFinish(w) /\ UNCHANGED watchers
  \/ \E w \in Workers, t \in BOOLEAN : PatchFail(w, t) /\ UNCHANGED watchers

PairSpec == Init /\ [][PairNext]_vars

\* the step is one of the PATCH worker w runs, or begins, on id a
StepOf(w, a) ==
  /\ patch'[w] # patch[w]
  /\ a = IF InFlight(w) THEN patch[w].id ELSE patch'[w].id

\* C31: PATCHes on different ids are independent. No step of a PATCH on id a
\* changes the record or the blob of another id; and a PATCH returns with
\* the record it looked up still in the store and leaves what it would alone:
\* uploaded_size moved by the bytes it wrote, the blob holding exactly those
\* bytes after the earlier ones, or, rolled back, record and blob as before
C31_DifferentIdsAreIndependent ==
  /\ [][\A w \in Workers, a \in PairIds :
          StepOf(w, a) =>
            \A b \in DOMAIN store \ {a} :
              /\ b \in DOMAIN store' /\ store'[b] = store[b]
              /\ BlobLen(store[b].Path)' = BlobLen(store[b].Path)
              /\ BlobRange(blob', store[b].Path, 0, BlobLen(store[b].Path))
                   = BlobRange(blob, store[b].Path, 0, BlobLen(store[b].Path))]_vars
  /\ [][\A w \in Workers :
          Returns(w) =>
            LET r   == patch[w]
                old == r.fm.UploadedSize
            IN  /\ store[r.id] = r.fm
                /\ r.originalPos = old
                /\ IF ChecksumActive(r.checksum) /\ resp'.status # 204
                   THEN /\ store'[r.id] = r.fm
                        /\ blob'[r.fm.Path] = BlobRange(blob, r.fm.Path, 0, old)
                   ELSE /\ store'[r.id] = Advanced(r.fm, r.n)
                        /\ Len(blob'[r.fm.Path]) = old + r.n
                        /\ BlobRange(blob', r.fm.Path, old, old + r.n)
                             = SubSeq(r.body, 1, r.n)
                        /\ BlobRange(blob', r.fm.Path, 0, old)
                             = BlobRange(blob, r.fm.Path, 0, old)]_vars

\* a PATCH on id 1 that wrote bytes was answered 204 while a PATCH on id 2,
\* begun before that answer, is in the middle of its copy
C31_Witness ==
  /\ resp.method = "PATCH" /\ resp.id = 1 /\ resp.status = 204 /\ resp.written > 0
  /\ resp.worker = "w1"
  /\ PatchOn("w2", 2) /\ patch["w2"].n > 0
  /\ store[1].UploadedSize > 0

\* ---------------------------------------------------------------- C36
\* the resumable client: it creates one upload of its file, then repeats
\* HEAD and a PATCH from the offset the HEAD returned, until a HEAD returns
\* an offset that is not below the size of the file. It waits for the answer
\* of each request before the next.
ClientFailures == 2     \* the first PATCHes of the client, which may fail
\* PATCH requests of the client that pass the checks: those that may fail,
\* and one for each byte of the largest file
MaxClientPatches == ClientFailures + MaxTotal

\* the bytes of the client's file
TestFile == [i \in 1..MaxTotal |-> 1]

\* no PATCH is being served
AllIdle == \A w \in Workers : ~InFlight(w)

\* a digest that is not that of the body
WrongDigest(body) == <<"hex", (HashSum(body) + 1) % HashMod>>

ClientPost ==
  /\ resp = NoResp
  /\ store = <<>>
  /\ TusResumableHeaderCheck("POST", TusVersion,
       \E fileSize \in 0..MaxTotal : CreateUpload(<<>>, FormatUint(fileSize), <<>>))

ClientHead ==
  /\ \/ resp.method = "POST" /\ resp.status = 201
     \/ resp.method = "PATCH"
  /\ AllIdle
  /\ TusResumableHeaderCheck("HEAD", TusVersion, GetOffset(resp.id))

\* the offset of the last HEAD, and the size of the client's file (the
\* Upload-Length it sent)
ClientOffset == ParseUint(resp.offset).v
ClientFileSize == store[resp.id].TotalSize

\* the client's loop ends: the HEAD returned an offset not below the size
ClientDone ==
  /\ resp.method = "HEAD"
  /\ ParseUint(resp.offset).ok
  /\ ClientOffset >= ClientFileSize

ClientPatch ==
  /\ resp.method = "HEAD"
  /\ ParseUint(resp.offset).ok
  /\ ClientOffset < ClientFileSize
  /\ AllIdle
  /\ \E len \in 1..(ClientFileSize - ClientOffset) :
       LET body == SubSeq(TestFile, ClientOffset + 1, ClientOffset + len)
           sums == {<<>>, <<"md5", HexDigest(body)>>}
                     \cup (IF accepted < ClientFailures
                           THEN {<<"md5", WrongDigest(body)>>} ELSE {})
       IN  \E sum \in sums :
             TusResumableHeaderCheck("PATCH", TusVersion,
               \E w \in Workers :
                 PatchBeginUpTo(MaxClientPatches, w, resp.id,
                   [uploadOffset |-> resp.offset, contentType |-> OffsetOctetStream,
                    uploadChecksum |-> sum, body |-> body]))

\* the PATCH being served is one of those that may fail
MayFail == accepted <= ClientFailures

ClientNext ==
  \/ ClientPost /\ UNCHANGED watchers
  \/ ClientHead /\ UNCHANGED watchers
  \/ ClientPatch /\ UNCHANGED watchers
  \/ \E w \in Workers : PatchOpen(w, "ok") /\ UNCHANGED watchers
  \/ \E w \in Workers, o \in {"open failed", "seek failed"} : MayFail /\ PatchOpen(w, o) /\ UNCHANGED watchers
  \/ \E w \in Workers : PatchWrite(w) /\ UNCHANGED watchers
  \/ \E w \in Workers : PatchFinish(w) /\ UNCHANGED watchers
  \/ \E w \in Workers, t \in BOOLEAN : MayFail /\ PatchFail(w, t) /\ UNCHANGED watchers
  \/ Tick /\ UNCHANGED watchers

\* the client goes on with its loop, and the handler of a PATCH that does
\* not fail runs to its end
ClientFairness ==
  /\ WF_vars(ClientHead /\ UNCHANGED watchers)
  /\ WF_vars(ClientPatch /\ UNCHANGED watchers)
  /\ \A w \in Workers :
       /\ WF_vars(PatchOpen(w, "ok") /\ UNCHANGED watchers)
       /\ WF_vars(PatchWrite(w) /\ UNCHANGED watchers)
       /\ WF_vars(PatchFinish(w) /\ UNCHANGED watchers)

ClientSpec == Init /\ [][ClientNext]_vars /\ ClientFairness

\* C36: resumability. With no PATCH in flight, the offset a HEAD returned is
\* the record's and the end of the blob, a PATCH from it is never answered
\* 409 and passes the checks unless the record has expired; and the client
\* whose upload was created reaches the end of its loop, unless the record
\* expires first
C36_Resumable ==
  /\ []((resp.method = "HEAD" /\ ParseUint(resp.offset).ok /\ AllIdle) =>
          /\ ClientOffset = store[resp.id].UploadedSize
          /\ ClientOffset = BlobLen(store[resp.id].Path)
          /\ \A rq \in GoodPatches :
               rq.uploadOffset = resp.offset =>
                 PatchChecks(resp.id, rq).code \in {0, 410})
  /\ [][(resp' # resp /\ resp'.method = "PATCH") => resp'.status # 409]_vars
  /\ ((resp.method = "POST" /\ resp.status = 201)
        ~> (ClientDone \/ (Enabled(extensions, ExpirationExtension) /\ Expired(resp.id))))

\* the client reached the end of its loop for a file of two bytes after
\* more PATCHes than the file has bytes: one of them committed nothing
C36_Witness ==
  /\ ClientDone
  /\ ClientFileSize = MaxTotal
  /\ accepted > MaxTotal

\* ---------------------------------------------------------------- C40
\* the cancellation watcher of a ResumeUpload call: the goroutine waits for
\* doneCh to be closed or for the request's context to be done, logs, and
\* returns. watchers[w] is "watching" while it waits with doneCh open,
\* "released" when doneCh is closed and it has not yet run, "none" when the
\* call of worker w has no watcher alive.

\* a return that leaves doneCh open
CloseDoneNever(s) == s

\* defer close(doneCh)
CloseDone(s) == IF s = "watching" THEN "released" ELSE s

\* the handler's step as the watcher of worker w sees it: the call that
\* begins starts the goroutine, the call that returns closes doneCh
Watched(w) ==
  LET started == IF InFlight(w) THEN watchers[w] ELSE "watching"
  IN  watchers' = [watchers EXCEPT ![w] =
                     IF patch'[w].pc = "idle" THEN CloseDone(started) ELSE started]

\* case <-doneCh
WatcherDone(w) ==
  /\ watchers[w] = "released"
  /\ watchers' = [watchers EXCEPT ![w] = "none"]
  /\ UNCHANGED <<accepted, extensions, maxSize, store, blob, now, patch, resp>>

\* case <-r.Context().Done(): the client went away, or the server ended the
\* request after the handler returned
WatcherCanceled(w) ==
  /\ watchers[w] # "none"
  /\ watchers' = [watchers EXCEPT ![w] = "none"]
  /\ UNCHANGED <<accepted, extensions, maxSize, store, blob, now, patch, resp>>

\* PATCH requests for every return of the handler: a malformed checksum, a
\* missing offset, another content type, an id that is not known, and one
\* byte at offset 0 or 1, without checksum or with a digest that is not its
\* own
WatchTargets ==
  (Ids \X
     ({rq \in BadPatches :
          \/ rq.uploadOffset = <<>> /\ rq.contentType = OffsetOctetStream
                /\ rq.uploadChecksum = <<>>
          \/ rq.uploadOffset = <<"0">> /\ rq.contentType # OffsetOctetStream
                /\ rq.uploadChecksum = <<>>
          \/ rq.uploadOffset = <<"0">> /\ rq.contentType = OffsetOctetStream
                /\ rq.uploadChecksum = <<"md5">>}
      \cup {rq \in GoodPatches :
               /\ rq.uploadOffset \in {FormatUint(0), FormatUint(1)}
               /\ rq.uploadChecksum \in {<<>>, <<"md5", WrongDigest(<<1>>)>>}
               /\ rq.body = <<1>>}))
  \cup {t \in PatchTargets : t[1] \notin Ids}

\* a PATCH is taken by a worker when the watcher of its last call is gone
WatchPatch ==
  TusResumableHeaderCheck("PATCH", TusVersion,
    \E w \in Workers, t \in WatchTargets :
      watchers[w] = "none" /\ PatchBegin(w, t[1], t[2]) /\ Watched(w))

WatchPost ==
  TusResumableHeaderCheck("POST", TusVersion,
    CreateUpload(<<>>, FormatUint(MaxTotal), <<>>))

WatchNext ==
  \/ WatchPost /\ UNCHANGED watchers
  \/ WatchPatch
  \/ \E w \in Workers, o \in {"ok", "open failed", "seek failed"} : PatchOpen(w, o) /\ Watched(w)
  \/ \E w \in Workers : PatchWrite(w) /\ Watched(w)
  \/ \E w \in Workers : PatchFinish(w) /\ Watched(w)
  \/ \E w \in Workers, t \in BOOLEAN : PatchFail(w, t) /\ Watched(w)
  \/ \E w \in Workers : WatcherDone(w)
  \/ \E w \in Workers : WatcherCanceled(w)
  \/ Tick /\ UNCHANGED watchers

\* a goroutine that can run does run: the watcher whose doneCh is closed,
\* and the handler that has no error to return
WatchFairness ==
  \A w \in Workers :
    /\ WF_vars(WatcherDone(w))
    /\ WF_vars(PatchOpen(w, "ok") /\ Watched(w))
    /\ WF_vars(PatchWrite(w) /\ Watched(w))
    /\ WF_vars(PatchFinish(w) /\ Watched(w))

WatchSpec == Init /\ [][WatchNext]_vars /\ WatchFairness

\* C40: the watcher goroutine always terminates. On every exit path of the
\* handler doneCh is closed (no watcher waits on an open doneCh once its
\* handler has returned), and every watcher that was started exits
C40_WatcherTerminates ==
  /\ [](\A w \in Workers : ~InFlight(w) => watchers[w] # "watching")
  /\ \A w \in Workers : (watchers[w] # "none") ~> (watchers[w] = "none")

\* the handler of a PATCH that was rejected has returned and its watcher
\* has not yet run, while the watcher of a PATCH in its copy waits
C40_Witness ==
  /\ watchers["w1"] = "watching" /\ patch["w1"].pc = "copy"
  /\ watchers["w2"] = "released" /\ resp.method = "PATCH" /\ resp.worker = "w2"
  /\ resp.status = 409

====
